---------------------------- MODULE Spec2Model ----------------------------
(***************************************************************************)
(* Model of the gex repository.  Server side: the watchlist route          *)
(* (GET / POST / DELETE / PUT over the `watchlist` table), the GEX         *)
(* aggregation route (GET over `summaries`, `details`, `prices`) and the   *)
(* fetch-ticker route (POST, running the external fetch process).  Client  *)
(* side: the GEXChart component and the add-ticker flow of WatchlistForm.  *)
(*                                                                         *)
(* Strings are sequences of one-character strings.  A JSON / query value   *)
(* is a record [type, val]: type is "string", "number", "undefined" or     *)
(* "null"; val is the character sequence of a string and <<>> otherwise.   *)
(***************************************************************************)
EXTENDS Integers, Sequences, FiniteSets, Bags, TLC

VARIABLES
    watchlist,   \* rows of table `watchlist`: set of [id, ticker]
    nextId,      \* next value of the table's serial id column
    adding,      \* bag of tickerUpper values of the POST handlers between check and insert
    last,        \* the latest HTTP response of the watchlist route, with its request
    summaries,   \* rows of table `summaries`
    details,     \* rows of table `details`, in storage order
    prices,      \* rows of table `prices`
    gexLast,     \* the latest HTTP response of the gex route, with its request
    \* GEXChart
    selectedTickerId, \* page.tsx state selectedTickerId, the chart's prop tickerId
    selectedDate,\* state selectedDate
    data,        \* state data: a response of the gex route, NoGexResponse for null
    error,       \* state error: a message, "" for null
    loading,     \* state loading
    dataCache,   \* state dataCache: function from cache keys to responses
    inflight,    \* bag of the cache keys of the fetchData calls awaiting their response
    received,    \* what the latest resumed fetchData got: [key, json, thrown]
    chartData,   \* the rows handed to the bar chart by the latest render of a response
    \* fetch-ticker route
    child,       \* the spawned process: [state, code, out, err], out / err what it wrote
    stdout,      \* handler variable stdout
    stderr,      \* handler variable stderr
    spawned,     \* processes started by the handler of the current request
    fetchLast,   \* the latest HTTP response of the fetch-ticker route
    \* WatchlistForm
    input,       \* state input
    formLoading, \* state loading
    message,     \* state message: [type, text], type "" for null
    formPc,      \* where handleAddTicker stands: "idle", "awaitAdd", "awaitFetch"
    fetchCalls   \* calls of /api/fetch-ticker made by the current handleAddTicker

wlVars == <<watchlist, nextId, adding, last>>
gexVars == <<summaries, details, prices, gexLast>>
chartVars == <<selectedTickerId, selectedDate, data, error, loading, dataCache, inflight,
               received, chartData>>
procVars == <<child, stdout, stderr, spawned, fetchLast>>
formVars == <<input, formLoading, message, formPc, fetchCalls>>

vars == <<wlVars, gexVars, chartVars, procVars, formVars>>

---------------------------------------------------------------------------
(* Bounds *)

MaxLen == 2        \* longest ticker string of a request to the concurrent store
MaxLongLen == 3    \* longest ticker string of a request to the single-row store
MaxId == 2         \* rows ever inserted into `watchlist` by the concurrent store
MaxInFlight == 2   \* POST handlers that can be between check and insert
MaxRowId == 4      \* largest id of a stored row when reordering

Chars == {"a", "A", " "}

RECURSIVE SeqsUpTo(_, _)
SeqsUpTo(S, n) ==
    IF n = 0 THEN {<<>>}
    ELSE LET shorter == SeqsUpTo(S, n - 1)
         IN  shorter \cup {Append(s, c) : s \in {x \in shorter : Len(x) = n - 1}, c \in S}

Strings == SeqsUpTo(Chars, MaxLen)
LongStrings == SeqsUpTo(Chars, MaxLongLen)

Str(s) == [type |-> "string", val |-> s]
Undefined == [type |-> "undefined", val |-> <<>>]
Null == [type |-> "null", val |-> <<>>]
Number == [type |-> "number", val |-> <<>>]   \* a non-zero number such as 5

\* what a POST body can carry as `ticker`
BodyTickers(strings) == {Str(s) : s \in strings} \cup {Undefined, Number}
\* what searchParams.get("ticker") can return
QueryTickers(strings) == {Str(s) : s \in strings} \cup {Null}

---------------------------------------------------------------------------
(* JavaScript primitives used by the handlers *)

\* !v for the values above: undefined, null and "" are falsy
Falsy(v) == v.type \in {"undefined", "null"} \/ (v.type = "string" /\ v.val = <<>>)

IsSpace(c) == c = " "

toUpperCaseChar(c) == IF c = "a" THEN "A" ELSE c

toUpperCase(s) == [i \in 1..Len(s) |-> toUpperCaseChar(s[i])]

RECURSIVE trimStart(_)
trimStart(s) ==
    IF s # <<>> /\ IsSpace(Head(s)) THEN trimStart(Tail(s)) ELSE s

RECURSIVE trimEnd(_)
trimEnd(s) ==
    IF s # <<>> /\ IsSpace(s[Len(s)]) THEN trimEnd(SubSeq(s, 1, Len(s) - 1)) ELSE s

\* variant of trim: the trailing whitespace is kept
trim_startOnly(s) == trimStart(s)

trim(s) == trimEnd(trimStart(s))

\* Array.prototype.findIndex, 0-based, -1 when absent
RECURSIVE findIndexFrom(_, _, _)
findIndexFrom(list, id, i) ==
    IF i > Len(list) THEN -1
    ELSE IF list[i].id = id THEN i - 1
    ELSE findIndexFrom(list, id, i + 1)

findIndex(list, id) == findIndexFrom(list, id, 1)

\* list.splice(start, 1): the list without the element at 0-based index start
spliceRemove(list, start) ==
    SubSeq(list, 1, start) \o SubSeq(list, start + 2, Len(list))

\* list.splice(start, 0, item): a negative start counts from the end, and the
\* resulting position is clamped to 0..length
spliceInsert(list, start, item) ==
    LET len == Len(list)
        at  == IF start < 0
               THEN (IF len + start > 0 THEN len + start ELSE 0)
               ELSE (IF start < len THEN start ELSE len)
    IN  SubSeq(list, 1, at) \o <<item>> \o SubSeq(list, at + 1, len)

---------------------------------------------------------------------------
(* The store's query primitives over `watchlist` *)

\* .select("*").order("id", {ascending: true})
RECURSIVE orderById(_)
orderById(rows) ==
    IF rows = {} THEN <<>>
    ELSE LET m == CHOOSE r \in rows : \A q \in rows : r.id <= q.id
         IN  <<m>> \o orderById(rows \ {m})

\* .select("id").eq("ticker", t).limit(1) returns a non-empty result
existsTicker(rows, t) == \E r \in rows : r.ticker = t

\* .delete().eq("ticker", t)
deleteTicker(rows, t) == {r \in rows : r.ticker # t}

\* .insert([{ticker: t}]).select(): the stored row, its id taken from the serial column
insertedRow(id, t) == [id |-> id, ticker |-> t]

---------------------------------------------------------------------------
(* Requests and responses of the watchlist route *)

NoIndex == [def |-> FALSE, val |-> 0]
Index(i) == [def |-> TRUE, val |-> i]
NewIndexes == {NoIndex} \cup {Index(i) : i \in (0 - MaxRowId)..MaxRowId}
Ids == 0..MaxRowId    \* 0 stands for every falsy id, a missing one included

\* a response, with the request fields its handler step read: ticker is the
\* request's `ticker`, id and newIndex are PUT's body
Response(op, status, err, ticker, id, newIndex, rows) ==
    [op |-> op, status |-> status, error |-> err, ticker |-> ticker,
     id |-> id, newIndex |-> newIndex, data |-> rows]

NoResponse == Response("none", 0, "", Undefined, 0, NoIndex, <<>>)

invalidTicker(ticker) == Falsy(ticker) \/ ticker.type # "string"

\* variant of tickerUpper: the case of the request's ticker is kept
tickerUpper_keepCase(ticker) == trim(ticker.val)

\* `ticker.toUpperCase().trim()` of POST
tickerUpper(ticker) == trim(toUpperCase(ticker.val))

BadRequest(ticker) == Response("POST", 400, "Invalid ticker symbol", ticker, 0, NoIndex, <<>>)
Conflict(ticker) == Response("POST", 409, "Ticker already in watchlist", ticker, 0, NoIndex, <<>>)
AddFailed(ticker) == Response("POST", 500, "Failed to add ticker", ticker, 0, NoIndex, <<>>)
Created(ticker, row) == Response("POST", 201, "", ticker, 0, NoIndex, <<row>>)

---------------------------------------------------------------------------
(* Watchlist route handlers *)

\* GET /watchlist
List ==
    /\ \E ok \in BOOLEAN :
         last' = IF ok
                 THEN Response("GET", 200, "", Undefined, 0, NoIndex, orderById(watchlist))
                 ELSE Response("GET", 500, "Failed to fetch watchlist", Undefined, 0, NoIndex, <<>>)
    /\ UNCHANGED <<watchlist, nextId, adding>>

\* POST /watchlist run to completion with no other request in between
Add(ticker) ==
    /\ adding = EmptyBag
    /\ IF invalidTicker(ticker)
       THEN /\ last' = BadRequest(ticker)
            /\ UNCHANGED <<watchlist, nextId>>
       ELSE \E checkOk \in BOOLEAN, insertOk \in BOOLEAN :
              IF ~checkOk
              THEN /\ last' = AddFailed(ticker)
                   /\ UNCHANGED <<watchlist, nextId>>
              ELSE IF existsTicker(watchlist, tickerUpper(ticker))
              THEN /\ last' = Conflict(ticker)
                   /\ UNCHANGED <<watchlist, nextId>>
              ELSE IF ~insertOk
              THEN /\ last' = AddFailed(ticker)
                   /\ UNCHANGED <<watchlist, nextId>>
              ELSE /\ watchlist' = watchlist \cup {insertedRow(nextId, tickerUpper(ticker))}
                   /\ nextId' = nextId + 1
                   /\ last' = Created(ticker, insertedRow(nextId, tickerUpper(ticker)))
    /\ UNCHANGED adding

\* POST /watchlist, up to the answer of the existence lookup (first await)
AddCheck(ticker) ==
    IF invalidTicker(ticker)
    THEN /\ last' = BadRequest(ticker)
         /\ UNCHANGED <<watchlist, nextId, adding>>
    ELSE \E checkOk \in BOOLEAN :
           IF ~checkOk
           THEN /\ last' = AddFailed(ticker)
                /\ UNCHANGED <<watchlist, nextId, adding>>
           ELSE IF existsTicker(watchlist, tickerUpper(ticker))
           THEN /\ last' = Conflict(ticker)
                /\ UNCHANGED <<watchlist, nextId, adding>>
           ELSE /\ adding' = adding (+) SetToBag({tickerUpper(ticker)})
                /\ UNCHANGED <<watchlist, nextId, last>>

\* POST /watchlist, from the insert (second await) to the response; t is the
\* handler's tickerUpper
AddInsert(t) ==
    /\ BagIn(t, adding)
    /\ adding' = adding (-) SetToBag({t})
    /\ \E insertOk \in BOOLEAN :
         IF insertOk
         THEN /\ watchlist' = watchlist \cup {insertedRow(nextId, t)}
              /\ nextId' = nextId + 1
              /\ last' = Created(Undefined, insertedRow(nextId, t))
         ELSE /\ last' = AddFailed(Undefined)
              /\ UNCHANGED <<watchlist, nextId>>

\* variant of Remove: a DELETE that matches no row is answered 404
Remove_notFound(ticker) ==
    /\ IF Falsy(ticker)
       THEN /\ last' = Response("DELETE", 400, "Ticker is required", ticker, 0, NoIndex, <<>>)
            /\ UNCHANGED watchlist
       ELSE \E ok \in BOOLEAN :
              IF ~ok
              THEN /\ last' = Response("DELETE", 500, "Failed to remove ticker", ticker, 0, NoIndex, <<>>)
                   /\ UNCHANGED watchlist
              ELSE IF ~existsTicker(watchlist, toUpperCase(ticker.val))
              THEN /\ last' = Response("DELETE", 404, "Ticker not found", ticker, 0, NoIndex, <<>>)
                   /\ UNCHANGED watchlist
              ELSE /\ watchlist' = deleteTicker(watchlist, toUpperCase(ticker.val))
                   /\ last' = Response("DELETE", 200, "", ticker, 0, NoIndex, <<>>)
    /\ UNCHANGED <<nextId, adding>>

\* DELETE /watchlist?ticker=X
Remove(ticker) ==
    /\ IF Falsy(ticker)
       THEN /\ last' = Response("DELETE", 400, "Ticker is required", ticker, 0, NoIndex, <<>>)
            /\ UNCHANGED watchlist
       ELSE \E ok \in BOOLEAN :
              IF ok
              THEN /\ watchlist' = deleteTicker(watchlist, toUpperCase(ticker.val))
                   /\ last' = Response("DELETE", 200, "", ticker, 0, NoIndex, <<>>)
              ELSE /\ last' = Response("DELETE", 500, "Failed to remove ticker", ticker, 0, NoIndex, <<>>)
                   /\ UNCHANGED watchlist
    /\ UNCHANGED <<nextId, adding>>

\* variant of reordered: the row is inserted before it is removed
reordered_insertFirst(allTickers, id, newIndex) ==
    LET itemIndex == findIndex(allTickers, id)
        movedItem == allTickers[itemIndex + 1]
    IN  spliceRemove(spliceInsert(allTickers, newIndex, movedItem), itemIndex)

\* the list PUT returns for (id, newIndex) over the fetched rows
reordered(allTickers, id, newIndex) ==
    LET itemIndex == findIndex(allTickers, id)
        movedItem == allTickers[itemIndex + 1]
    IN  spliceInsert(spliceRemove(allTickers, itemIndex), newIndex, movedItem)

\* PUT /watchlist
Reorder(id, newIndex) ==
    /\ IF id = 0 \/ ~newIndex.def
       THEN last' = Response("PUT", 400, "ID and newIndex are required", Undefined, id, newIndex, <<>>)
       ELSE \E ok \in BOOLEAN :
              LET allTickers == orderById(watchlist)
              IN  last' = IF ~ok
                          THEN Response("PUT", 500, "Failed to reorder watchlist", Undefined, id, newIndex, <<>>)
                          ELSE IF findIndex(allTickers, id) = -1
                          THEN Response("PUT", 404, "Ticker not found", Undefined, id, newIndex, <<>>)
                          ELSE Response("PUT", 200, "", Undefined, id, newIndex,
                                        reordered(allTickers, id, newIndex.val))
    /\ UNCHANGED <<watchlist, nextId, adding>>

---------------------------------------------------------------------------
(* The GEX aggregation route: GET /gex?ticker_id=ID&date=YYYY-MM-DD         *)
(* Dates are day numbers; their order is the order of the ISO date strings. *)

MaxDate == 2       \* dates that rows and requests range over
MaxRows == 3       \* rows stored in summaries, details and prices together

TickerIds == {1, 2}
Dates == 1..MaxDate
Strikes == {100, 105}

\* a query parameter as searchParams.get returns it: null, "" or a value
NullParam == [kind |-> "null", val |-> 0]
EmptyParam == [kind |-> "empty", val |-> 0]
Param(v) == [kind |-> "value", val |-> v]
FalsyParam(p) == p.kind # "value"

TickerIdParams == {NullParam, EmptyParam} \cup {Param(k) : k \in TickerIds}
DateParams == {NullParam, EmptyParam} \cup {Param(d) : d \in Dates}

\* rows as the external fetch process writes them; the values identify the row
summaryRow(k, d) ==
    [ticker_id |-> k, date |-> d, total_gex |-> 10 * k + d, flip_price |-> 100 * k + d,
     percentile |-> 50 + 10 * k + d]
detailRow(k, d, x) ==
    [ticker_id |-> k, date |-> d, strike |-> x,
     net_gex |-> IF x = 100 THEN 0 - (50 + 10 * k + d) ELSE 30 + 10 * k + d]
priceRow(k, d) == [ticker_id |-> k, date |-> d, price |-> 100 * k + d]

Keys == TickerIds \X Dates
SummaryRows == {summaryRow(kd[1], kd[2]) : kd \in Keys}
DetailRows == {detailRow(kd[1], kd[2], x) : kd \in Keys, x \in Strikes}
PriceRows == {priceRow(kd[1], kd[2]) : kd \in Keys}

Range(seq) == {seq[i] : i \in 1..Len(seq)}

\* the sequences of at most n distinct elements of S
RECURSIVE DistinctSeqs(_, _)
DistinctSeqs(S, n) ==
    IF n = 0 THEN {<<>>}
    ELSE LET shorter == DistinctSeqs(S, n - 1)
         IN  shorter \cup UNION {{Append(q, x) : x \in S \ Range(q)}
                                 : q \in {y \in shorter : Len(y) = n - 1}}

\* variant of orderByDateDesc: the rows are ordered by date ascending
RECURSIVE orderByDateDesc_ascending(_)
orderByDateDesc_ascending(rows) ==
    IF rows = {} THEN <<>>
    ELSE LET m == CHOOSE r \in rows : \A q \in rows : r.date <= q.date
         IN  <<m>> \o orderByDateDesc_ascending(rows \ {m})

\* .order("date", {ascending: false}) over summary rows
RECURSIVE orderByDateDesc(_)
orderByDateDesc(rows) ==
    IF rows = {} THEN <<>>
    ELSE LET m == CHOOSE r \in rows : \A q \in rows : r.date >= q.date
         IN  <<m>> \o orderByDateDesc(rows \ {m})

\* .limit(n)
limit(seq, n) == SubSeq(seq, 1, IF Len(seq) < n THEN Len(seq) ELSE n)

\* variant of summaryQuery: a date with no summary falls back to the latest one
summaryQuery_fallback(tickerId, date) ==
    LET ofTicker == {r \in summaries : r.ticker_id = tickerId}
        onDate   == {r \in ofTicker : r.date = date.val}
    IN  IF ~FalsyParam(date) /\ onDate # {}
        THEN orderByDateDesc(onDate)
        ELSE limit(orderByDateDesc(ofTicker), 1)

\* summaryQuery: .eq("ticker_id", tickerId), then .eq("date", date) when a
\* date is given, else .order("date", desc).limit(1)
summaryQuery(tickerId, date) ==
    LET ofTicker == {r \in summaries : r.ticker_id = tickerId}
    IN  IF ~FalsyParam(date)
        THEN orderByDateDesc({r \in ofTicker : r.date = date.val})
        ELSE limit(orderByDateDesc(ofTicker), 1)

\* variant of strikeQuery: the rows are returned in storage order
strikeQuery_unordered(tickerId, queryDate) ==
    SelectSeq(details, LAMBDA r : r.ticker_id = tickerId /\ r.date = queryDate)

\* details .eq("ticker_id").eq("date").order("strike", {ascending: true})
strikeQuery(tickerId, queryDate) ==
    SortSeq(SelectSeq(details, LAMBDA r : r.ticker_id = tickerId /\ r.date = queryDate),
            LAMBDA a, b : a.strike < b.strike)

\* prices .eq("ticker_id").eq("date")
priceQuery(tickerId, queryDate) ==
    orderByDateDesc({r \in prices : r.ticker_id = tickerId /\ r.date = queryDate})

NoPrice == [def |-> FALSE, val |-> 0]
Price(v) == [def |-> TRUE, val |-> v]
NoSummary == [total_gex |-> 0, flip_price |-> 0, percentile |-> 0, date |-> 0]

GexResponse(status, err, summary, price, strikes, tickerIdParam, dateParam) ==
    [status |-> status, error |-> err, summary |-> summary, price |-> price,
     strikes |-> strikes, ticker_id |-> tickerIdParam, date |-> dateParam]

NoGexResponse == GexResponse(0, "", NoSummary, NoPrice, <<>>, NullParam, NullParam)

\* variant of gexResponse: a summary without strike rows is answered 404
gexResponse_needsStrikes(tickerIdParam, dateParam, failAt) ==
    LET tickerId    == IF FalsyParam(tickerIdParam) THEN 1 ELSE tickerIdParam.val
        summaryData == summaryQuery(tickerId, dateParam)
        summary     == summaryData[1]
        queryDate   == IF ~FalsyParam(dateParam) THEN dateParam.val ELSE summary.date
        strikeData  == strikeQuery(tickerId, queryDate)
        priceData   == priceQuery(tickerId, queryDate)
        failed      == GexResponse(500, "Internal server error", NoSummary, NoPrice, <<>>,
                                   tickerIdParam, dateParam)
        noData      == GexResponse(404, "No summary data found", NoSummary, NoPrice, <<>>,
                                   tickerIdParam, dateParam)
    IN  IF failAt = 1 THEN failed
        ELSE IF Len(summaryData) = 0 THEN noData
        ELSE IF failAt \in {2, 3} THEN failed
        ELSE IF Len(strikeData) = 0 THEN noData
        ELSE GexResponse(200, "",
                         [total_gex |-> summary.total_gex, flip_price |-> summary.flip_price,
                          percentile |-> summary.percentile, date |-> summary.date],
                         IF Len(priceData) > 0 THEN Price(priceData[1].price) ELSE NoPrice,
                         strikeData, tickerIdParam, dateParam)

\* the response of GET /gex; failAt is the store query that answers with an
\* error (1 summaries, 2 details, 3 prices), 0 when none does
gexResponse(tickerIdParam, dateParam, failAt) ==
    LET tickerId    == IF FalsyParam(tickerIdParam) THEN 1 ELSE tickerIdParam.val
        summaryData == summaryQuery(tickerId, dateParam)
        summary     == summaryData[1]
        queryDate   == IF ~FalsyParam(dateParam) THEN dateParam.val ELSE summary.date
        strikeData  == strikeQuery(tickerId, queryDate)
        priceData   == priceQuery(tickerId, queryDate)
        failed      == GexResponse(500, "Internal server error", NoSummary, NoPrice, <<>>,
                                   tickerIdParam, dateParam)
    IN  IF failAt = 1 THEN failed
        ELSE IF Len(summaryData) = 0
        THEN GexResponse(404, "No summary data found", NoSummary, NoPrice, <<>>,
                         tickerIdParam, dateParam)
        ELSE IF failAt \in {2, 3} THEN failed
        ELSE GexResponse(200, "",
                         [total_gex |-> summary.total_gex, flip_price |-> summary.flip_price,
                          percentile |-> summary.percentile, date |-> summary.date],
                         IF Len(priceData) > 0 THEN Price(priceData[1].price) ELSE NoPrice,
                         strikeData, tickerIdParam, dateParam)

\* GET /gex
GetGex(tickerIdParam, dateParam) ==
    /\ \E failAt \in 0..3 : gexLast' = gexResponse(tickerIdParam, dateParam, failAt)
    /\ UNCHANGED <<summaries, details, prices>>

---------------------------------------------------------------------------
(* GEXChart.tsx: the chart component.  One step is what React does between  *)
(* two awaits: a state update with the render and the effect that follow.   *)

MaxRequests == 2   \* fetchData calls that can await their response

\* the dates of the slider; the component builds the latest 20, the model
\* keeps the latest two
availableDates == {MaxDate - 1, MaxDate}

NoData == NoGexResponse    \* data = null
NoError == ""              \* error = null

\* the characters of the strings whose content the component inspects
chars(msg) ==
    CASE msg = "No data" -> <<"N", "o", " ", "d", "a", "t", "a">>
      [] msg = "No summary data found" ->
             <<"N", "o", " ", "s", "u", "m", "m", "a", "r", "y", " ",
               "d", "a", "t", "a", " ", "f", "o", "u", "n", "d">>
      [] msg = "Internal server error" ->
             <<"I", "n", "t", "e", "r", "n", "a", "l", " ", "s", "e", "r", "v", "e", "r", " ",
               "e", "r", "r", "o", "r">>
      [] msg = "" -> <<>>

\* String.prototype.includes
includes(hay, needle) ==
    \E i \in 0..(Len(hay) - Len(needle)) : SubSeq(hay, i + 1, i + Len(needle)) = needle

\* `${tickerId}-${selectedDate}`
cacheKeyOf(k, d) == <<k, d>>

\* variant of chartDataOf: the two bars of a row are exchanged
chartDataOf_swapped(strikes) ==
    [i \in 1..Len(strikes) |->
        [strike |-> strikes[i].strike,
         negativeGEX |-> IF strikes[i].net_gex > 0 THEN strikes[i].net_gex ELSE 0,
         positiveGEX |-> IF strikes[i].net_gex < 0 THEN strikes[i].net_gex ELSE 0]]

\* chartData: strikes.map(...)
chartDataOf(strikes) ==
    [i \in 1..Len(strikes) |->
        [strike |-> strikes[i].strike,
         negativeGEX |-> IF strikes[i].net_gex < 0 THEN strikes[i].net_gex ELSE 0,
         positiveGEX |-> IF strikes[i].net_gex > 0 THEN strikes[i].net_gex ELSE 0]]

\* what the render hands to the bar chart: nothing while data is null
rendered(d) == IF d = NoData THEN <<>> ELSE chartDataOf(d.strikes)

\* the component's state, and the requests it awaits
ChartState ==
    [tickerId |-> selectedTickerId, selectedDate |-> selectedDate, data |-> data, error |-> error,
     loading |-> loading, dataCache |-> dataCache, inflight |-> inflight]

SetChart(st) ==
    /\ selectedTickerId' = st.tickerId
    /\ selectedDate' = st.selectedDate
    /\ data' = st.data
    /\ error' = st.error
    /\ loading' = st.loading
    /\ dataCache' = st.dataCache
    /\ inflight' = st.inflight
    /\ chartData' = rendered(st.data)

Received(cacheKey, json, thrown) == [key |-> cacheKey, json |-> json, thrown |-> thrown]

NoneReceived == Received(<<0, 0>>, NoGexResponse, FALSE)

\* response.ok
responseOk_always(status) == TRUE

responseOk(status) == status \in 200..299

\* fetchData up to its await: a cached key is displayed, any other is requested.
\* (selectedDate is always one of availableDates, so it is never empty.)
fetchData(st) ==
    LET cacheKey == cacheKeyOf(st.tickerId, st.selectedDate)
    IN  IF cacheKey \in DOMAIN st.dataCache
        THEN [st EXCEPT !.data = st.dataCache[cacheKey], !.error = NoError, !.loading = FALSE]
        ELSE [st EXCEPT !.loading = TRUE, !.error = NoError,
                        !.inflight = @ (+) SetToBag({cacheKey})]

\* variant of fetchDataResumed: the response is cached under the key selected
\* when it arrives
fetchDataResumed_currentKey(st, cacheKey, json) ==
    IF json.summary # NoSummary
    THEN [st EXCEPT !.dataCache = (cacheKeyOf(st.tickerId, st.selectedDate) :> json) @@ @,
                    !.data = json, !.error = NoError, !.loading = FALSE]
    ELSE IF json.error # "" /\ includes(chars(json.error), chars("No data"))
    THEN [st EXCEPT !.data = NoData, !.error = NoError, !.loading = FALSE]
    ELSE IF ~responseOk(json.status)
    THEN [st EXCEPT !.error = IF json.error # "" THEN json.error ELSE "Failed to fetch GEX data",
                    !.data = NoData, !.loading = FALSE]
    ELSE [st EXCEPT !.data = NoData, !.error = NoError, !.loading = FALSE]

\* fetchData from its await on, for the response json of the request of cacheKey
fetchDataResumed(st, cacheKey, json) ==
    IF json.summary # NoSummary
    THEN [st EXCEPT !.dataCache = (cacheKey :> json) @@ @, !.data = json,
                    !.error = NoError, !.loading = FALSE]
    ELSE IF json.error # "" /\ includes(chars(json.error), chars("No data"))
    THEN [st EXCEPT !.data = NoData, !.error = NoError, !.loading = FALSE]
    ELSE IF ~responseOk(json.status)
    THEN [st EXCEPT !.error = IF json.error # "" THEN json.error ELSE "Failed to fetch GEX data",
                    !.data = NoData, !.loading = FALSE]
    ELSE [st EXCEPT !.data = NoData, !.error = NoError, !.loading = FALSE]

\* fetchData from its await on, when fetch or response.json() throws
fetchDataThrown(st) ==
    [st EXCEPT !.error = "Failed to fetch", !.data = NoData, !.loading = FALSE]

\* the user picks another ticker in the watchlist (page.tsx: setSelectedTickerId)
SelectTicker(k) ==
    /\ k # selectedTickerId
    /\ LET st == fetchData([ChartState EXCEPT !.tickerId = k])
       IN  /\ BagCardinality(st.inflight) <= MaxRequests
           /\ SetChart(st)
    /\ UNCHANGED received

\* the user moves the date slider (setSelectedDate)
SelectDate(d) ==
    /\ d # selectedDate
    /\ LET st == fetchData([ChartState EXCEPT !.selectedDate = d])
       IN  /\ BagCardinality(st.inflight) <= MaxRequests
           /\ SetChart(st)
    /\ UNCHANGED received

\* the request of cacheKey is answered by the gex route; a new dataCache
\* runs the effect again
Complete(cacheKey) ==
    /\ BagIn(cacheKey, inflight)
    /\ \E failAt \in 0..3 :
         LET json == gexResponse(Param(cacheKey[1]), Param(cacheKey[2]), failAt)
             st   == fetchDataResumed([ChartState EXCEPT !.inflight = @ (-) SetToBag({cacheKey})],
                                      cacheKey, json)
         IN  /\ SetChart(IF json.summary # NoSummary THEN fetchData(st) ELSE st)
             /\ received' = Received(cacheKey, json, FALSE)

\* the request of cacheKey fails without a response
CompleteThrown(cacheKey) ==
    /\ BagIn(cacheKey, inflight)
    /\ SetChart(fetchDataThrown([ChartState EXCEPT !.inflight = @ (-) SetToBag({cacheKey})]))
    /\ received' = Received(cacheKey, NoGexResponse, TRUE)

\* the component after its first render and effect: the latest date is
\* selected and requested
InitChartState ==
    /\ selectedTickerId = 1
    /\ selectedDate = MaxDate
    /\ data = NoData
    /\ error = NoError
    /\ loading = TRUE
    /\ dataCache = <<>>
    /\ inflight = SetToBag({cacheKeyOf(1, MaxDate)})
    /\ received = NoneReceived
    /\ chartData = <<>>

---------------------------------------------------------------------------
(* The fetch-ticker route: POST /fetch-ticker {ticker}.  The handler spawns *)
(* the fetch process, appends what its streams deliver to stdout / stderr   *)
(* and answers on the process's `close` event, which Node emits once the    *)
(* process has ended and its streams have delivered everything.             *)

MaxChunks == 2     \* chunks the process writes to each of its streams

OutChunk == "o"
ErrChunk == "e"

\* the code of the `close` event: a number, or null when a signal ended the process
ExitCode(n) == [null |-> FALSE, val |-> n]
NullCode == [null |-> TRUE, val |-> 0]
ExitCodes == {ExitCode(0), ExitCode(1), NullCode}

NoChild == [state |-> "none", code |-> NullCode, out |-> <<>>, err |-> <<>>,
            outRead |-> 0, errRead |-> 0]

FetchResponse(status, msg, err, output, errDetails, ticker) ==
    [status |-> status, message |-> msg, error |-> err, output |-> output,
     details |-> errDetails, ticker |-> ticker]

NoFetchResponse == FetchResponse(0, "", "", <<>>, <<>>, Undefined)

\* variant of closeResponse: the failure carries the captured standard output
closeResponse_detailsFromStdout(code, out, err, ticker) ==
    IF ~code.null /\ code.val = 0
    THEN FetchResponse(200, "Data fetched successfully", "", out, <<>>, ticker)
    ELSE FetchResponse(500, "", "Failed to fetch data", <<>>, out, ticker)

\* the response resolved by the `close` listener
closeResponse(code, out, err, ticker) ==
    IF ~code.null /\ code.val = 0
    THEN FetchResponse(200, "Data fetched successfully", "", out, <<>>, ticker)
    ELSE FetchResponse(500, "", "Failed to fetch data", <<>>, err, ticker)

\* POST /fetch-ticker up to the returned promise
FetchTicker(ticker) ==
    /\ stdout' = <<>>
    /\ stderr' = <<>>
    /\ IF invalidTicker(ticker)
       THEN /\ fetchLast' = FetchResponse(400, "", "Invalid ticker symbol", <<>>, <<>>, ticker)
            /\ spawned' = 0
            /\ child' = NoChild
       ELSE /\ fetchLast' = [NoFetchResponse EXCEPT !.ticker = ticker]
            /\ spawned' = 1
            /\ child' = [NoChild EXCEPT !.state = "running"]

\* the process writes a chunk to its standard output
ProcWriteOut ==
    /\ child.state = "running"
    /\ Len(child.out) < MaxChunks
    /\ child' = [child EXCEPT !.out = Append(@, OutChunk)]
    /\ UNCHANGED <<stdout, stderr, spawned, fetchLast>>

\* the process writes a chunk to its standard error
ProcWriteErr ==
    /\ child.state = "running"
    /\ Len(child.err) < MaxChunks
    /\ child' = [child EXCEPT !.err = Append(@, ErrChunk)]
    /\ UNCHANGED <<stdout, stderr, spawned, fetchLast>>

\* pythonProcess.stdout.on("data")
StdoutData ==
    /\ child.state \in {"running", "exited"}
    /\ child.outRead < Len(child.out)
    /\ stdout' = Append(stdout, child.out[child.outRead + 1])
    /\ child' = [child EXCEPT !.outRead = @ + 1]
    /\ UNCHANGED <<stderr, spawned, fetchLast>>

\* pythonProcess.stderr.on("data")
StderrData ==
    /\ child.state \in {"running", "exited"}
    /\ child.errRead < Len(child.err)
    /\ stderr' = Append(stderr, child.err[child.errRead + 1])
    /\ child' = [child EXCEPT !.errRead = @ + 1]
    /\ UNCHANGED <<stdout, spawned, fetchLast>>

\* the process ends
ProcExit(code) ==
    /\ child.state = "running"
    /\ child' = [child EXCEPT !.state = "exited", !.code = code]
    /\ UNCHANGED <<stdout, stderr, spawned, fetchLast>>

\* pythonProcess.on("close")
Close ==
    /\ child.state = "exited"
    /\ child.outRead = Len(child.out)
    /\ child.errRead = Len(child.err)
    /\ child' = [child EXCEPT !.state = "closed"]
    /\ fetchLast' = closeResponse(child.code, stdout, stderr, fetchLast.ticker)
    /\ UNCHANGED <<stdout, stderr, spawned>>

InitProc ==
    /\ child = NoChild
    /\ stdout = <<>>
    /\ stderr = <<>>
    /\ spawned = 0
    /\ fetchLast = NoFetchResponse

---------------------------------------------------------------------------
(* WatchlistForm.tsx: handleAddTicker.  formPc.input is the `input` of the  *)
(* render whose handler is running.                                         *)

FormInputs == {<<>>, <<" ">>, <<"a">>, <<"A", " ">>}

NoMessage == [type |-> "", text |-> ""]
Message(type, text) == [type |-> type, text |-> text]

Idle == [at |-> "idle", input |-> <<>>]

\* onChange of the text field, which is disabled while loading
Type(s) ==
    /\ ~formLoading
    /\ s # input
    /\ input' = s
    /\ UNCHANGED <<formLoading, message, formPc, fetchCalls>>

\* handleAddTicker up to the await of POST /api/watchlist
Submit ==
    /\ ~formLoading
    /\ formPc = Idle
    /\ trim(input) # <<>>
    /\ formLoading' = TRUE
    /\ message' = NoMessage
    /\ formPc' = [at |-> "awaitAdd", input |-> input]
    /\ fetchCalls' = 0
    /\ UNCHANGED input

\* handleAddTicker returning at once on a blank input
SubmitBlank ==
    /\ ~formLoading
    /\ formPc = Idle
    /\ trim(input) = <<>>
    /\ UNCHANGED formVars

\* POST /api/watchlist is answered: a failure ends the handler, a success
\* sends POST /api/fetch-ticker
AddAnswered ==
    /\ formPc.at = "awaitAdd"
    /\ child.state \in {"none", "closed"}
    /\ Add(Str(formPc.input))
    /\ IF ~responseOk(last'.status)
       THEN /\ message' = Message("error", IF last'.error # "" THEN last'.error
                                           ELSE "Failed to add ticker")
            /\ formLoading' = FALSE
            /\ formPc' = Idle
            /\ UNCHANGED <<input, fetchCalls>>
            /\ UNCHANGED procVars
       ELSE /\ message' = Message("success", "added to watchlist")
            /\ input' = <<>>
            /\ fetchCalls' = fetchCalls + 1
            /\ formPc' = [formPc EXCEPT !.at = "awaitFetch"]
            /\ FetchTicker(Str(toUpperCase(formPc.input)))
            /\ UNCHANGED formLoading

\* POST /api/watchlist fails without a response
AddThrown ==
    /\ formPc.at = "awaitAdd"
    /\ message' = Message("error", "An error occurred")
    /\ formLoading' = FALSE
    /\ formPc' = Idle
    /\ UNCHANGED <<input, fetchCalls>>

\* POST /api/fetch-ticker is answered
FetchAnswered ==
    /\ formPc.at = "awaitFetch"
    /\ Close
    /\ message' = IF responseOk(fetchLast'.status)
                  THEN Message("success", "added and data fetched successfully")
                  ELSE message
    /\ formLoading' = FALSE
    /\ formPc' = Idle
    /\ UNCHANGED <<input, fetchCalls>>

\* POST /api/fetch-ticker fails without a response
FetchThrown ==
    /\ formPc.at = "awaitFetch"
    /\ formLoading' = FALSE
    /\ formPc' = Idle
    /\ UNCHANGED <<input, message, fetchCalls>>

InitForm ==
    /\ input = <<>>
    /\ formLoading = FALSE
    /\ message = NoMessage
    /\ formPc = Idle
    /\ fetchCalls = 0

InitClient == InitChartState /\ InitProc /\ InitForm

---------------------------------------------------------------------------
(* Spec: the watchlist route under concurrent requests.  POST is split at   *)
(* its two store calls, so that other requests run between them.            *)

InitGexEmpty ==
    /\ summaries = {}
    /\ details = <<>>
    /\ prices = {}
    /\ gexLast = NoGexResponse

Init ==
    /\ watchlist = {}
    /\ nextId = 1
    /\ adding = EmptyBag
    /\ last = NoResponse
    /\ InitGexEmpty
    /\ InitClient

StartAdd ==
    /\ nextId + BagCardinality(adding) <= MaxId
    /\ BagCardinality(adding) < MaxInFlight
    /\ \E t \in BodyTickers(Strings) : AddCheck(t)
    /\ UNCHANGED <<gexVars, chartVars, procVars, formVars>>

FinishAdd == (\E t \in BagToSet(adding) : AddInsert(t)) /\ UNCHANGED <<gexVars, chartVars, procVars, formVars>>

DoRemove == (\E t \in QueryTickers(Strings) : Remove(t)) /\ UNCHANGED <<gexVars, chartVars, procVars, formVars>>

DoList == List /\ UNCHANGED <<gexVars, chartVars, procVars, formVars>>

Next == StartAdd \/ FinishAdd \/ DoRemove \/ DoList

Spec == Init /\ [][Next]_vars

---------------------------------------------------------------------------
(* SpecLong: one client sending one request at a time, with longer ticker   *)
(* strings, to a store that receives a single row.                          *)

MaxLongId == 1     \* rows ever inserted into `watchlist` by the single client

LongAdd ==
    /\ nextId <= MaxLongId
    /\ \E t \in BodyTickers(LongStrings) : Add(t)
    /\ UNCHANGED <<gexVars, chartVars, procVars, formVars>>

LongRemove == (\E t \in QueryTickers(LongStrings) : Remove(t)) /\ UNCHANGED <<gexVars, chartVars, procVars, formVars>>

NextLong == LongAdd \/ LongRemove \/ DoList

SpecLong == Init /\ [][NextLong]_vars

---------------------------------------------------------------------------
(* SpecReorder: PUT and GET over every stored list of up to MaxRowId rows.  *)

StoredTickers == {<<"A">>, <<"A", "A">>}

\* the stores the route can have built: ids are distinct, tickers are what
\* POST stores, and ids removed by DELETE are missing
StoredLists ==
    UNION {{{insertedRow(i, f[i]) : i \in ids} : f \in [ids -> StoredTickers]}
           : ids \in SUBSET (1..MaxRowId)}

InitReorder ==
    /\ watchlist \in StoredLists
    /\ nextId = MaxRowId + 1
    /\ adding = EmptyBag
    /\ last = NoResponse
    /\ InitGexEmpty
    /\ InitClient

DoReorder == (\E id \in Ids, i \in NewIndexes : Reorder(id, i)) /\ UNCHANGED <<gexVars, chartVars, procVars, formVars>>

NextReorder == DoReorder \/ DoList

SpecReorder == InitReorder /\ [][NextReorder]_vars

---------------------------------------------------------------------------
(* SpecGex: one GET /gex over every content of the three tables of at most  *)
(* MaxRows rows, one row per key in summaries and in prices and one per      *)
(* strike in details.  The route only reads the tables, so a request sees    *)
(* nothing of the requests before it.                                        *)

SubsetsUpTo(S, n) == {x \in SUBSET S : Cardinality(x) <= n}

InitGex ==
    /\ watchlist = {}
    /\ nextId = 1
    /\ adding = EmptyBag
    /\ last = NoResponse
    /\ summaries \in SubsetsUpTo(SummaryRows, MaxRows)
    /\ prices \in SubsetsUpTo(PriceRows, MaxRows - Cardinality(summaries))
    /\ details \in DistinctSeqs(DetailRows,
                                MaxRows - Cardinality(summaries) - Cardinality(prices))
    /\ gexLast = NoGexResponse
    /\ InitClient

DoGetGex ==
    /\ gexLast = NoGexResponse
    /\ \E k \in TickerIdParams, d \in DateParams : GetGex(k, d)
    /\ UNCHANGED <<wlVars, chartVars, procVars, formVars>>

NextGex == DoGetGex

SpecGex == InitGex /\ [][NextGex]_vars

---------------------------------------------------------------------------
(* SpecRender: the render of every successful response of at most           *)
(* MaxStrikes strike rows, ordered by strike as the gex route orders them.  *)

MaxStrikes == 3    \* strike rows of a rendered response

NetGexValues == {0 - 50, 0, 30}

StrikeRows ==
    {[ticker_id |-> 1, date |-> 1, strike |-> x, net_gex |-> g] : x \in Strikes, g \in NetGexValues}

OrderedStrikes ==
    {q \in SeqsUpTo(StrikeRows, MaxStrikes) :
        \A i \in 1..Len(q), j \in 1..Len(q) : i < j => q[i].strike <= q[j].strike}

InitRender ==
    /\ watchlist = {}
    /\ nextId = 1
    /\ adding = EmptyBag
    /\ last = NoResponse
    /\ InitGexEmpty
    /\ InitProc
    /\ InitForm
    /\ selectedTickerId = 1
    /\ selectedDate = 1
    /\ \E q \in OrderedStrikes :
         LET r == summaryRow(1, 1)
         IN  data = GexResponse(200, "",
                                [total_gex |-> r.total_gex, flip_price |-> r.flip_price,
                                 percentile |-> r.percentile, date |-> r.date],
                                NoPrice, q, Param(1), Param(1))
    /\ error = NoError
    /\ loading = FALSE
    /\ dataCache = (cacheKeyOf(1, 1) :> data)
    /\ inflight = EmptyBag
    /\ received = Received(cacheKeyOf(1, 1), data, FALSE)
    /\ chartData = <<>>

Render ==
    /\ data # NoData
    /\ chartData' = rendered(data)
    /\ UNCHANGED <<selectedTickerId, selectedDate, data, error, loading, dataCache, inflight,
                   received>>
    /\ UNCHANGED <<wlVars, gexVars, procVars, formVars>>

NextRender == Render

SpecRender == InitRender /\ [][NextRender]_vars

---------------------------------------------------------------------------
(* SpecChart: the chart component over tables as the fetch process fills    *)
(* them (a summary, its strike rows and its price per ticker and date),     *)
(* with up to MaxRequests requests awaiting their response.                 *)

RECURSIVE storedDetails(_)
storedDetails(rows) ==
    IF rows = {} THEN <<>>
    ELSE LET r == CHOOSE x \in rows : TRUE
         IN  <<detailRow(r.ticker_id, r.date, 105), detailRow(r.ticker_id, r.date, 100)>>
             \o storedDetails(rows \ {r})

InitChart ==
    /\ watchlist = {}
    /\ nextId = 1
    /\ adding = EmptyBag
    /\ last = NoResponse
    /\ summaries \in SUBSET {summaryRow(k, d) : k \in TickerIds, d \in availableDates}
    /\ details = storedDetails(summaries)
    /\ prices = {priceRow(r.ticker_id, r.date) : r \in summaries}
    /\ gexLast = NoGexResponse
    /\ InitClient

DoSelectTicker ==
    /\ \E k \in TickerIds : SelectTicker(k)
    /\ UNCHANGED <<wlVars, gexVars, procVars, formVars>>

DoSelectDate ==
    /\ \E d \in availableDates : SelectDate(d)
    /\ UNCHANGED <<wlVars, gexVars, procVars, formVars>>

DoComplete ==
    /\ \E key \in BagToSet(inflight) : Complete(key)
    /\ UNCHANGED <<wlVars, gexVars, procVars, formVars>>

DoCompleteThrown ==
    /\ \E key \in BagToSet(inflight) : CompleteThrown(key)
    /\ UNCHANGED <<wlVars, gexVars, procVars, formVars>>

NextChart == DoSelectTicker \/ DoSelectDate \/ DoComplete \/ DoCompleteThrown

SpecChart == InitChart /\ [][NextChart]_vars

---------------------------------------------------------------------------
(* SpecFetch: the fetch-ticker route serving one request at a time.         *)

FetchBodies == {Undefined, Number, Str(<<>>), Str(<<"A">>)}

DoFetchTicker ==
    /\ child.state \in {"none", "closed"}
    /\ formPc = Idle
    /\ \E t \in FetchBodies : FetchTicker(t)
    /\ UNCHANGED <<wlVars, gexVars, chartVars, formVars>>

DoProcWriteOut == ProcWriteOut /\ UNCHANGED <<wlVars, gexVars, chartVars, formVars>>

DoProcWriteErr == ProcWriteErr /\ UNCHANGED <<wlVars, gexVars, chartVars, formVars>>

DoStdoutData == StdoutData /\ UNCHANGED <<wlVars, gexVars, chartVars, formVars>>

DoStderrData == StderrData /\ UNCHANGED <<wlVars, gexVars, chartVars, formVars>>

DoProcExit == (\E code \in ExitCodes : ProcExit(code)) /\ UNCHANGED <<wlVars, gexVars, chartVars, formVars>>

\* `close` of a process whose request no handleAddTicker awaits
DoClose ==
    /\ formPc.at # "awaitFetch"
    /\ Close
    /\ UNCHANGED <<wlVars, gexVars, chartVars, formVars>>

NextFetch ==
    \/ DoFetchTicker
    \/ DoProcWriteOut
    \/ DoProcWriteErr
    \/ DoStdoutData
    \/ DoStderrData
    \/ DoProcExit
    \/ DoClose

SpecFetch == Init /\ [][NextFetch]_vars

---------------------------------------------------------------------------
(* SpecForm: the add-ticker flow against the watchlist route and the        *)
(* fetch-ticker route.                                                      *)

DoType ==
    /\ \E s \in FormInputs : Type(s)
    /\ UNCHANGED <<wlVars, gexVars, chartVars, procVars>>

DoSubmit == Submit /\ UNCHANGED <<wlVars, gexVars, chartVars, procVars>>

DoSubmitBlank == SubmitBlank /\ UNCHANGED <<wlVars, gexVars, chartVars, procVars>>

DoAddAnswered ==
    /\ nextId <= MaxId
    /\ AddAnswered
    /\ UNCHANGED <<gexVars, chartVars>>

DoAddThrown == AddThrown /\ UNCHANGED <<wlVars, gexVars, chartVars, procVars>>

DoFetchAnswered == FetchAnswered /\ UNCHANGED <<wlVars, gexVars, chartVars>>

DoFetchThrown == FetchThrown /\ UNCHANGED <<wlVars, gexVars, chartVars, procVars>>

NextForm ==
    \/ DoType
    \/ DoSubmit
    \/ DoSubmitBlank
    \/ DoAddAnswered
    \/ DoAddThrown
    \/ DoFetchAnswered
    \/ DoFetchThrown
    \/ DoProcWriteOut
    \/ DoProcWriteErr
    \/ DoStdoutData
    \/ DoStderrData
    \/ DoProcExit
    \/ DoClose

SpecForm == Init /\ [][NextForm]_vars

---------------------------------------------------------------------------
(* Properties of the watchlist route *)

Spaces(n) == [i \in 1..n |-> " "]

\* raw and stored are the same string up to the case of their letters
SameIgnoringCase(raw, stored) ==
    /\ Len(raw) = Len(stored)
    /\ \A i \in 1..Len(raw) : toUpperCaseChar(raw[i]) = toUpperCaseChar(stored[i])

\* u is raw uppercased with its leading and trailing whitespace cut off
IsUpperTrimmedOf(u, raw) ==
    /\ \E i \in 0..Len(raw), j \in 0..Len(raw) :
         /\ i + Len(u) + j = Len(raw)
         /\ \A k \in 1..Len(raw) :
              IF k <= i \/ k > i + Len(u)
              THEN IsSpace(raw[k])
              ELSE u[k - i] = toUpperCaseChar(raw[k])
    /\ u # <<>> => ~IsSpace(u[1]) /\ ~IsSpace(u[Len(u)])

InList(list, row) == \E i \in 1..Len(list) : list[i] = row

\* the tickers a step of POST's first part can have read: the one its response
\* carries, or any when the step answers nothing and goes on to the insert
StepTickers ==
    IF adding' = adding
    THEN (IF last'.op = "POST" THEN {last'.ticker} ELSE {})
    ELSE (IF BagCardinality(adding') > BagCardinality(adding) THEN BodyTickers(Strings) ELSE {})

\* C1: a POST whose ticker is a case variant of a stored ticker is answered
\* 409 "Ticker already in watchlist" once the store has answered the
\* existence lookup; it leaves the rows as they are and never goes on to the
\* insert.
C1_DuplicateAddConflicts ==
    [][\A t \in StepTickers :
         ( /\ ~invalidTicker(t)
           /\ \E r \in watchlist : SameIgnoringCase(t.val, r.ticker)
           /\ AddCheck(t)
           /\ last' # AddFailed(t) )
         => /\ last' = Conflict(t)
            /\ watchlist' = watchlist
            /\ nextId' = nextId
            /\ adding' = adding]_vars

\* C1 witness: "a" was answered 409 while the row "A" is stored
C1_Witness ==
    /\ last = Conflict(Str(<<"a">>))
    /\ \E r \in watchlist : r.ticker = <<"A">>
    /\ Cardinality(watchlist) = 1

\* C2: no two rows of the watchlist have the same ticker, in every state the
\* concurrent route reaches.
C2_TickersUnique ==
    \A r \in watchlist, q \in watchlist : r.ticker = q.ticker => r = q

\* C3: the row a successful POST returns has exactly the uppercased, trimmed
\* form of the request's ticker and is stored, and a GET that follows the
\* POST returns that row.
C3_AddStoresNormalizedTicker ==
    [][ /\ (last'.op = "POST" /\ last'.status = 201)
           => /\ Len(last'.data) = 1
              /\ IsUpperTrimmedOf(last'.data[1].ticker, last'.ticker.val)
              /\ InList(orderById(watchlist'), last'.data[1])
        /\ (last.op = "POST" /\ last.status = 201 /\ last'.op = "GET" /\ last'.status = 200)
           => InList(last'.data, last.data[1]) ]_vars

\* C3 witness: POST " a " succeeded and returned the row with ticker "A"
C3_Witness ==
    /\ last = Created(Str(<<" ", "a", " ">>), insertedRow(1, <<"A">>))
    /\ insertedRow(1, <<"A">>) \in watchlist

\* C4: every stored ticker equals its own uppercase form and contains no
\* whitespace character.
C4_StoredTickersNormalized ==
    \A r \in watchlist :
        /\ toUpperCase(r.ticker) = r.ticker
        /\ \A i \in 1..Len(r.ticker) : ~IsSpace(r.ticker[i])

\* C5: a POST whose ticker is empty or not a string is answered 400 and
\* inserts nothing, and no row with an empty ticker is ever stored.
C5_NoEmptyTickerStored ==
    /\ (last.op = "POST" /\ (last.ticker.type # "string" \/ last.ticker.val = <<>>))
       => last.status = 400
    /\ \A r \in watchlist : r.ticker # <<>>

\* C6: a DELETE that carries a ticker is answered 200 once the store has
\* answered, whether or not a row matched; afterwards no row has the
\* uppercased ticker, every other row is as before, and repeating the DELETE
\* is answered 200 again and changes nothing.
C6_RemoveIdempotent ==
    [][LET t == last'.ticker
       IN  ( /\ last'.op = "DELETE"
             /\ ~Falsy(t)
             /\ last'.status # 500
             /\ Remove(t) )
           => /\ last'.status = 200
              /\ \A r \in watchlist' : r.ticker # toUpperCase(t.val)
              /\ watchlist' \subseteq watchlist
              /\ \A r \in watchlist : r.ticker # toUpperCase(t.val) => r \in watchlist'
              /\ ((last.op = "DELETE" /\ last.status = 200 /\ last.ticker = t)
                  => watchlist' = watchlist)
              /\ deleteTicker(watchlist', toUpperCase(t.val)) = watchlist']_vars

\* C6 witness: DELETE ?ticker=a succeeded and the other row "AA" is still stored
C6_Witness ==
    /\ last.op = "DELETE" /\ last.status = 200 /\ last.ticker = Str(<<"a">>)
    /\ nextId = 3
    /\ watchlist = {insertedRow(2, <<"A", "A">>)}

\* C7: a PUT with a stored id and a newIndex within the list returns the
\* stored list with that row moved to position newIndex, the other rows in
\* their stored order, and leaves the stored rows (hence what GET returns)
\* unchanged.
C7_ReorderIsView ==
    [][LET id == last'.id
           i  == last'.newIndex
       IN  ( /\ last'.op = "PUT"
             /\ \E r \in watchlist : r.id = id
             /\ i.def /\ i.val >= 0 /\ i.val < Cardinality(watchlist)
             /\ last'.status # 500
             /\ Reorder(id, i) )
           => /\ last'.status = 200
              /\ Len(last'.data) = Cardinality(watchlist)
              /\ last'.data[i.val + 1].id = id
              /\ SelectSeq(last'.data, LAMBDA r : r.id # id)
                   = SelectSeq(orderById(watchlist), LAMBDA r : r.id # id)
              /\ {last'.data[k] : k \in 1..Len(last'.data)} = watchlist
              /\ watchlist' = watchlist
              /\ orderById(watchlist') = orderById(watchlist)]_vars

\* C7 witness: with ids 1, 2, 3 stored, PUT {id: 3, newIndex: 0} returned 3, 1, 2
C7_Witness ==
    /\ last.op = "PUT" /\ last.status = 200 /\ last.id = 3 /\ last.newIndex = Index(0)
    /\ [k \in 1..Len(last.data) |-> last.data[k].id] = <<3, 1, 2>>
    /\ [k \in 1..Len(orderById(watchlist)) |-> orderById(watchlist)[k].id] = <<1, 2, 3>>

---------------------------------------------------------------------------
(* Properties of the GEX aggregation route *)

\* the ticker a response's request is about: ticker_id, or 1 when it is missing
RequestedTicker(resp) == IF resp.ticker_id.kind = "value" THEN resp.ticker_id.val ELSE 1

DateGiven(resp) == resp.date.kind = "value"

Answered(resp) == resp.status \notin {0, 500}

SummaryOf(r) ==
    [total_gex |-> r.total_gex, flip_price |-> r.flip_price,
     percentile |-> r.percentile, date |-> r.date]

\* the stored summaries that resolve a response's request
Resolving(resp) ==
    {r \in summaries :
        /\ r.ticker_id = RequestedTicker(resp)
        /\ DateGiven(resp) => r.date = resp.date.val}

\* C8: a request without a date, for a ticker that has summaries, returns the
\* summary of that ticker with the greatest date, once the store has answered.
C8_LatestSummary ==
    (Answered(gexLast) /\ ~DateGiven(gexLast) /\ Resolving(gexLast) # {})
    => /\ gexLast.status = 200
       /\ \E r \in summaries :
            /\ r.ticker_id = RequestedTicker(gexLast)
            /\ \A q \in summaries : q.ticker_id = r.ticker_id => q.date <= r.date
            /\ gexLast.summary = SummaryOf(r)

\* C8 witness: ticker 1 has summaries for dates 1 and 2, ticker 2 for date 2,
\* and the request for ticker 1 without a date returned ticker 1's date 2
C8_Witness ==
    /\ summaries = {summaryRow(1, 1), summaryRow(1, 2), summaryRow(2, 2)}
    /\ gexLast.status = 200
    /\ gexLast.ticker_id = Param(1) /\ gexLast.date = NullParam
    /\ gexLast.summary = SummaryOf(summaryRow(1, 2))

\* C9: once the store has answered, the response is 404 "No summary data
\* found" exactly when no summary resolves: none for the exact (ticker_id,
\* date) when a date is given, none for the ticker_id when it is not.
C9_NotFoundIffNoSummary ==
    Answered(gexLast)
    => /\ gexLast.status = 404 <=> Resolving(gexLast) = {}
       /\ gexLast.status = 404 => gexLast.error = "No summary data found"
       /\ gexLast.status \in {200, 404}

\* C9 witness: 404 for (ticker 1, date 1) although ticker 1 has a summary for date 2
C9_Witness ==
    /\ gexLast.status = 404
    /\ gexLast.ticker_id = Param(1) /\ gexLast.date = Param(1)
    /\ summaryRow(1, 2) \in summaries

\* the date the strikes and the price of a 200 response are fetched for
EffectiveDate(resp) == IF DateGiven(resp) THEN resp.date.val ELSE resp.summary.date

\* C10: when a summary resolves and the store has answered, the response is
\* 200; without detail rows for the effective (ticker_id, date) its strikes
\* are empty, and without a price row its price is null.
C10_MissingRowsAreNotErrors ==
    (Answered(gexLast) /\ Resolving(gexLast) # {})
    => /\ gexLast.status = 200
       /\ (\A i \in 1..Len(details) :
             ~(details[i].ticker_id = RequestedTicker(gexLast)
               /\ details[i].date = EffectiveDate(gexLast)))
          => gexLast.strikes = <<>>
       /\ (\A r \in prices :
             ~(r.ticker_id = RequestedTicker(gexLast) /\ r.date = EffectiveDate(gexLast)))
          => gexLast.price = NoPrice

\* C10 witness: a 200 response with no strikes and no price, while detail and
\* price rows of another date are stored
C10_Witness ==
    /\ gexLast.status = 200
    /\ gexLast.strikes = <<>> /\ gexLast.price = NoPrice
    /\ details # <<>> /\ prices # {}

\* C11: the strikes of a 200 response are exactly the stored detail rows of
\* the requested ticker and the effective date, each once, in ascending order
\* of strike; the summary and the price are those of that same date.
C11_StrikesOfEffectiveDate ==
    gexLast.status = 200
    => LET k == RequestedTicker(gexLast)
           d == EffectiveDate(gexLast)
           n == Len(gexLast.strikes)
       IN  /\ Range(gexLast.strikes)
                = {r \in Range(details) : r.ticker_id = k /\ r.date = d}
           /\ \A i \in 1..n, j \in 1..n :
                i < j => gexLast.strikes[i].strike < gexLast.strikes[j].strike
           /\ gexLast.summary.date = d
           /\ gexLast.summary = SummaryOf(summaryRow(k, d))
           /\ summaryRow(k, d) \in summaries
           /\ gexLast.price = IF priceRow(k, d) \in prices
                              THEN Price(priceRow(k, d).price) ELSE NoPrice

\* C11 witness: the detail rows of (1, 1) are stored with strike 105 before
\* strike 100, and the request without a date returned them as 100, 105
C11_Witness ==
    /\ details = <<detailRow(1, 1, 105), detailRow(1, 1, 100)>>
    /\ gexLast.status = 200
    /\ gexLast.ticker_id = Param(1) /\ gexLast.date = NullParam
    /\ gexLast.strikes = <<detailRow(1, 1, 100), detailRow(1, 1, 105)>>

---------------------------------------------------------------------------
(* Further properties of the watchlist route *)

Min(a, b) == IF a < b THEN a ELSE b
Max(a, b) == IF a > b THEN a ELSE b

\* C15: the list a PUT returns is a permutation of the stored list, with the
\* moved row at index min(max(newIndex, 0), n - 1), whatever integer
\* newIndex is.
C15_ReorderClamps ==
    (last.op = "PUT" /\ last.status = 200)
    => LET n == Cardinality(watchlist)
       IN  /\ Len(last.data) = n
           /\ Range(last.data) = watchlist
           /\ last.data[Min(Max(last.newIndex.val, 0), n - 1) + 1].id = last.id

\* C19: a DELETE that carries the very ticker string of the POST that has
\* just created a row removes that row, and nothing else.  (Stated for the
\* POSTs whose ticker holds a letter, so that the stored ticker is not empty.)
C19_RemoveUndoesAdd ==
    [][( /\ last.op = "POST" /\ last.status = 201
         /\ last.data[1].ticker # <<>>
         /\ Remove(last.ticker)
         /\ last'.status = 200 )
       => /\ last.data[1] \in watchlist
          /\ watchlist' = watchlist \ {last.data[1]}]_vars

---------------------------------------------------------------------------
(* Properties of the fetch-ticker route *)

\* C12: a request with a valid ticker starts exactly one process and is not
\* answered while that process runs or its streams are read; the answer is
\* 200 with everything the process wrote to its standard output when the
\* exit code is 0, and 500 with everything it wrote to its standard error
\* otherwise.
C12_FetchRespondsAfterExit ==
    /\ spawned = (IF invalidTicker(fetchLast.ticker) THEN 0 ELSE 1)
    /\ child.state \in {"running", "exited"} => fetchLast.status = 0
    /\ child.state = "closed" => fetchLast.status \in {200, 500}
    /\ fetchLast.status = 200
       => /\ child.state = "closed"
          /\ child.code = ExitCode(0)
          /\ fetchLast.output = child.out
    /\ fetchLast.status = 500
       => /\ child.state = "closed"
          /\ child.code # ExitCode(0)
          /\ fetchLast.details = child.err

C12_Witness ==
    /\ fetchLast.status = 500
    /\ fetchLast.details = <<ErrChunk>>
    /\ child.out = <<OutChunk, OutChunk>>
    /\ child.code = ExitCode(1)

---------------------------------------------------------------------------
(* Properties of the chart component *)

CurrentKey == cacheKeyOf(selectedTickerId, selectedDate)

\* the step resumes a fetchData whose request was not answered with a summary
FailedCompletion == BagCardinality(inflight') < BagCardinality(inflight)

\* C13: a request answered 404 "No summary data found" leaves the component
\* in the empty state (no data, no error, not loading); a request answered
\* with any other failure, or not answered at all, leaves it in the error
\* state (no data, an error, not loading).
C13_NoDataIsBenign ==
    [][FailedCompletion
       => IF ~received'.thrown /\ received'.json.status = 404
          THEN data' = NoData /\ error' = NoError /\ ~loading'
          ELSE (received'.thrown \/ ~responseOk(received'.json.status))
               => (data' = NoData /\ error' # NoError /\ ~loading')]_vars

\* C14: the rendered rows are the strike rows in their order, each with its
\* strike, Negative GEX = min(net_gex, 0) and Positive GEX = max(net_gex, 0):
\* at most one of the two is not 0 and their sum is net_gex.
C14_ChartProjection ==
    chartData # <<>>
    => /\ Len(chartData) = Len(data.strikes)
       /\ \A i \in 1..Len(chartData) :
            LET row == data.strikes[i]
                bar == chartData[i]
            IN  /\ bar.strike = row.strike
                /\ bar.negativeGEX = Min(row.net_gex, 0)
                /\ bar.positiveGEX = Max(row.net_gex, 0)
                /\ bar.negativeGEX = 0 \/ bar.positiveGEX = 0
                /\ bar.negativeGEX + bar.positiveGEX = row.net_gex

C14_Witness ==
    /\ Len(data.strikes) = 2
    /\ data.strikes[1].strike = 100 /\ data.strikes[1].net_gex = 0 - 50
    /\ data.strikes[2].strike = 105 /\ data.strikes[2].net_gex = 30
    /\ chartData = <<[strike |-> 100, negativeGEX |-> 0 - 50, positiveGEX |-> 0],
                     [strike |-> 105, negativeGEX |-> 0, positiveGEX |-> 30]>>

\* C16: every cache entry is the successful response of the gex route to
\* the request for the entry's own key; entries are added only by a request
\* answered with a summary, under that request's key, and are never removed
\* or changed; selecting a cached key displays the entry and sends nothing.
C16_CacheRightKeyed ==
    /\ [](\A key \in DOMAIN dataCache :
            /\ dataCache[key].status = 200
            /\ dataCache[key].summary # NoSummary
            /\ dataCache[key] = gexResponse(Param(key[1]), Param(key[2]), 0))
    /\ [][/\ \A key \in DOMAIN dataCache :
               key \in DOMAIN dataCache' /\ dataCache'[key] = dataCache[key]
          /\ DOMAIN dataCache' # DOMAIN dataCache
             => /\ ~received'.thrown
                /\ received'.json.status = 200
                /\ DOMAIN dataCache' = DOMAIN dataCache \cup {received'.key}
          /\ (CurrentKey' # CurrentKey /\ CurrentKey' \in DOMAIN dataCache)
             => /\ inflight' = inflight
                /\ data' = dataCache[CurrentKey']]_vars

C16_Witness ==
    /\ Cardinality(DOMAIN dataCache) = 2
    /\ received.json.status = 200
    /\ received.key # CurrentKey
    /\ CurrentKey \in DOMAIN dataCache
    /\ inflight = EmptyBag

\* C18: once no request is awaited, a selection whose response has been
\* received is displayed with that response.
C18_NoStaleDisplay ==
    (inflight = EmptyBag /\ CurrentKey \in DOMAIN dataCache)
    => data = dataCache[CurrentKey]

---------------------------------------------------------------------------
(* Properties of the add-ticker flow *)

\* C17: a handleAddTicker calls the fetch-ticker route at most once, and
\* only after the watchlist route answered its POST with 201; loading is
\* true as long as the handler awaits either answer and false once it has
\* ended.
C17_FetchOncePerAdd ==
    /\ fetchCalls \in {0, 1}
    /\ fetchCalls = 1 => (last.op = "POST" /\ last.status = 201)
    /\ formPc.at = "awaitFetch" => fetchCalls = 1
    /\ formPc.at = "awaitAdd" => fetchCalls = 0
    /\ formPc.at \in {"awaitAdd", "awaitFetch"} => formLoading
    /\ formPc.at = "awaitFetch" => child.state \in {"running", "exited"}
    /\ formPc = Idle => ~formLoading

C17_Witness ==
    /\ formPc = Idle
    /\ ~formLoading
    /\ fetchCalls = 1
    /\ fetchLast.status = 500
    /\ message = Message("success", "added to watchlist")

=============================================================================
